---------------------------- MODULE Spec2Model ----------------------------
(***************************************************************************)
(* Model of Kitsune::Json::JsonItem (src/src/json_item.cpp): a value       *)
(* handle holding a pointer m_content to a tree of DataItem nodes and the  *)
(* flag m_deletable that says whether the handle deletes that tree.        *)
(*                                                                         *)
(* The heap is explicit: every `new` takes the next unused node id, every  *)
(* `delete` is counted per node.  A node that is allocated and was never   *)
(* deleted when no handle is left is a leak; a node deleted twice is a     *)
(* double free.                                                            *)
(*                                                                         *)
(* The DataItem classes (data_structure/data_items.h), the parser          *)
(* (json_parsing/json_parser_interface.h) and the class declaration        *)
(* (json_item.h) are not part of the source file; their behaviour is taken *)
(* from sections 3, 4.1 and 6 of the specification.                        *)
(***************************************************************************)
EXTENDS Integers, Sequences, FiniteSets, TLC

\* ------------------------------------------------------------------ bounds
\* number of nodes that handles can reach at the same time
MaxNodes == 3
\* number of handle objects that may exist at the same time
MaxHandles == 2
\* highest array index handed to replaceItem / get / remove
MaxIndex == 1

\* ------------------------------------------------------------------ inputs
NULL == 0
\* the value of a pointer whose node was deleted
DANGLING == -1
Handles == 1..MaxHandles
Keys == {"k1", "k2"}
\* keys a caller may pass: the real keys and the empty string
KeyInputs == Keys \cup {""}
Indexes == 0..MaxIndex
StringInputs == {"a"}
IntInputs == {1}
\* a float is represented by an integer code; 0 stands for 0.0
FloatInputs == {2}

VARIABLES
    heap,          \* node id -> DataItem object, for the nodes a handle can reach
    leaked,        \* some node was lost: never deleted, reachable from no handle
    doubleFree,    \* some node was deleted twice
    alive,         \* handle -> the JsonItem object exists
    m_content,     \* handle -> DataItem* (NULL, a node id, or DANGLING)
    m_deletable,   \* handle -> bool
    fatal,         \* the process was terminated by an invalid memory access
    last           \* the call that has just completed, its arguments and result

vars == <<heap, leaked, doubleFree, alive, m_content, m_deletable, fatal, last>>

\* ------------------------------------------------------------------ heap
\* Within one operation the heap is the sequence of the nodes allocated so
\* far, a node's id is its position and frees counts the deletes of the node.
\* Between operations only the nodes that a handle can reach are kept, numbered
\* in the order in which the handles reach them (addresses carry no meaning):
\* see Collect.
Min(a, b) == IF a < b THEN a ELSE b

\* position of key k in the key sequence q, 0 when absent
IndexOf(q, k) ==
    IF \E j \in 1..Len(q) : q[j] = k
    THEN CHOOSE j \in 1..Len(q) : q[j] = k
    ELSE 0

RemoveAt(q, p) == [j \in 1..(Len(q) - 1) |-> IF j < p THEN q[j] ELSE q[j + 1]]

\* the node is allocated and was not deleted
Live(hp, n) == n # NULL /\ n # DANGLING /\ n <= Len(hp) /\ hp[n].frees = 0

\* the nodes of the subtree below n (n included)
RECURSIVE Reach(_, _)
Reach(hp, n) ==
    IF n = NULL \/ n = DANGLING THEN {}
    ELSE {n} \cup UNION {Reach(hp, hp[n].items[j]) : j \in 1..Len(hp[n].items)}

\* a node that was deleted: its members are gone
Deleted(k) ==
    [frees |-> k, type |-> "NONE", vtype |-> "NONE",
     s |-> "", i |-> 0, f |-> 0, keys |-> <<>>, items |-> <<>>]

\* what is seen of a deleted node
GoneVal ==
    [type |-> "NONE", vtype |-> "NONE",
     s |-> "", i |-> 0, f |-> 0, keys |-> <<>>, items |-> <<>>]

\* the content of the subtree below n as a value, without the node ids
RECURSIVE TreeVal(_, _)
TreeVal(hp, n) ==
    IF n = DANGLING THEN GoneVal
    ELSE
    [type |-> hp[n].type, vtype |-> hp[n].vtype,
     s |-> hp[n].s, i |-> hp[n].i, f |-> hp[n].f,
     keys |-> hp[n].keys,
     items |-> [j \in 1..Len(hp[n].items) |-> TreeVal(hp, hp[n].items[j])]]

\* `new` of the value t and of its children; gives the new heap and the root
RECURSIVE Build(_, _), BuildKids(_, _, _)
Build(hp, t) ==
    LET root == Len(hp) + 1
        hp1 == Append(hp, [frees |-> 0, type |-> t.type,
                           vtype |-> t.vtype, s |-> t.s, i |-> t.i, f |-> t.f,
                           keys |-> t.keys, items |-> <<>>])
        r == BuildKids(hp1, t.items, <<>>)
    IN [heap |-> [r.heap EXCEPT ![root].items = r.ids], root |-> root]
BuildKids(hp, ts, ids) ==
    IF ts = <<>> THEN [heap |-> hp, ids |-> ids]
    ELSE LET b == Build(hp, Head(ts))
         IN BuildKids(b.heap, Tail(ts), Append(ids, b.root))

\* DataItem::copy(): a deep copy of the subtree below n in fresh nodes
CopyTree(hp, n) == Build(hp, TreeVal(hp, n))

\* `delete n`: the destructor deletes every owned child, then the node
\* (a delete of a pointer whose node is gone is recorded as a node deleted twice)
DeleteTree(hp, n) ==
    LET gone == Reach(hp, n)
    IN IF n = DANGLING THEN Append(hp, Deleted(2))
       ELSE [m \in 1..Len(hp) |->
                IF m \in gone THEN Deleted(Min(hp[m].frees + 1, 2)) ELSE hp[m]]

\* the nodes reached from n that are not in the sequence acc, appended to it
RECURSIVE Visit(_, _, _), VisitAll(_, _, _)
Visit(hp, n, acc) ==
    IF ~Live(hp, n) \/ (\E j \in 1..Len(acc) : acc[j] = n) THEN acc
    ELSE VisitAll(hp, hp[n].items, Append(acc, n))
VisitAll(hp, ns, acc) ==
    IF ns = <<>> THEN acc
    ELSE VisitAll(hp, Tail(ns), Visit(hp, Head(ns), acc))

\* What is left of the heap hp after an operation, for the handle pointers mc:
\* the nodes the handles reach, renumbered; the pointers, renumbered (DANGLING
\* when the node was deleted); the number of nodes lost; some node deleted twice
Collect(hp, mc) ==
    LET ord == VisitAll(hp, [h \in 1..MaxHandles |-> mc[h]], <<>>)
        pos(n) == IF n = NULL THEN NULL
                  ELSE IF ~Live(hp, n) THEN DANGLING
                  ELSE IndexOf(ord, n)
    IN [heap |-> [j \in 1..Len(ord) |->
                    [hp[ord[j]] EXCEPT !.items =
                        [k \in 1..Len(hp[ord[j]].items) |-> pos(hp[ord[j]].items[k])]]],
        content |-> [h \in Handles |-> pos(mc[h])],
        leaked |-> Cardinality({n \in 1..Len(hp) :
                                  Live(hp, n) /\ \A j \in 1..Len(ord) : ord[j] # n}),
        doubleFree |-> \E n \in 1..Len(hp) : hp[n].frees >= 2]

\* values of the three node variants
ObjectVal == [type |-> "OBJECT", vtype |-> "NONE", s |-> "", i |-> 0, f |-> 0,
              keys |-> <<>>, items |-> <<>>]
ArrayVal == [type |-> "ARRAY", vtype |-> "NONE", s |-> "", i |-> 0, f |-> 0,
             keys |-> <<>>, items |-> <<>>]
StringVal(v) == [type |-> "VALUE", vtype |-> "STRING", s |-> v, i |-> 0, f |-> 0,
                 keys |-> <<>>, items |-> <<>>]
IntVal(v) == [type |-> "VALUE", vtype |-> "INT", s |-> "", i |-> v, f |-> 0,
              keys |-> <<>>, items |-> <<>>]
FloatVal(v) == [type |-> "VALUE", vtype |-> "FLOAT", s |-> "", i |-> 0, f |-> v,
                keys |-> <<>>, items |-> <<>>]
\* DataValue(): the scalar made before the first setValue
DefaultVal == StringVal("")

ScalarInputs ==
    {StringVal(v) : v \in StringInputs} \cup {IntVal(v) : v \in IntInputs}
        \cup {FloatVal(v) : v \in FloatInputs}

\* ------------------------------------------------------------------ DataItem
\* The node operations, as section 4.1 of the specification gives them.
\* Each one that changes the tree gives the new heap and its return value.

\* get(key): Object only; null if absent or wrong variant
NodeGetKey(hp, n, key) ==
    IF hp[n].type = "OBJECT" /\ IndexOf(hp[n].keys, key) # 0
    THEN hp[n].items[IndexOf(hp[n].keys, key)]
    ELSE NULL

\* get(index): Array only; null if index >= size or wrong variant
NodeGetIndex(hp, n, idx) ==
    IF hp[n].type = "ARRAY" /\ idx < Len(hp[n].items)
    THEN hp[n].items[idx + 1]
    ELSE NULL

\* insert(key, node, force): Object only; fails without mutation if the key
\* exists and force is false; otherwise inserts, or destroys the old child
\* and overwrites; takes ownership of node
NodeInsert(hp, n, key, child, force) ==
    LET p == IndexOf(hp[n].keys, key)
    IN IF hp[n].type # "OBJECT" THEN [heap |-> hp, ret |-> FALSE]
       ELSE IF p # 0 /\ ~force THEN [heap |-> hp, ret |-> FALSE]
       ELSE IF p # 0
       THEN [heap |-> [DeleteTree(hp, hp[n].items[p]) EXCEPT ![n].items[p] = child],
             ret |-> TRUE]
       ELSE [heap |-> [hp EXCEPT ![n].keys = Append(@, key),
                                 ![n].items = Append(@, child)],
             ret |-> TRUE]

\* append(node): Array only; appends, taking ownership
NodeAppend(hp, n, child) ==
    IF hp[n].type # "ARRAY" THEN [heap |-> hp, ret |-> FALSE]
    ELSE [heap |-> [hp EXCEPT ![n].items = Append(@, child)], ret |-> TRUE]

\* remove(key): fails if absent or wrong variant; otherwise destroys and
\* removes that entry
NodeRemoveKey(hp, n, key) ==
    LET p == IndexOf(hp[n].keys, key)
    IN IF hp[n].type # "OBJECT" \/ p = 0 THEN [heap |-> hp, ret |-> FALSE]
       ELSE [heap |-> [DeleteTree(hp, hp[n].items[p]) EXCEPT
                            ![n].keys = RemoveAt(@, p),
                            ![n].items = RemoveAt(@, p)],
             ret |-> TRUE]

\* remove(index): fails if out of range or wrong variant; otherwise destroys
\* and removes that entry, shifting the later indices down
NodeRemoveIndex(hp, n, idx) ==
    IF hp[n].type # "ARRAY" \/ idx >= Len(hp[n].items)
    THEN [heap |-> hp, ret |-> FALSE]
    ELSE [heap |-> [DeleteTree(hp, hp[n].items[idx + 1]) EXCEPT
                        ![n].items = RemoveAt(@, idx + 1)],
          ret |-> TRUE]

\* getSize(): Object: key count; Array: element count; Scalar: 0
NodeSize(hp, n) == Len(hp[n].items)

\* DataValue::setValue: stores the value in the representation of its kind
NodeSetValue(hp, n, v) ==
    [hp EXCEPT ![n].vtype = v.vtype, ![n].s = v.s, ![n].i = v.i, ![n].f = v.f]

\* toString / toInt / toFloat: the stored value if the sub-kind matches,
\* else the neutral default
NodeToString(hp, n) == IF hp[n].vtype = "STRING" THEN hp[n].s ELSE ""
NodeToInt(hp, n) == IF hp[n].vtype = "INT" THEN hp[n].i ELSE 0
NodeToFloat(hp, n) == IF hp[n].vtype = "FLOAT" THEN hp[n].f ELSE 0

\* ------------------------------------------------------------------ JsonItem
\* json_item.h: the members' default initialisers
DefaultContent == NULL
DefaultDeletable == TRUE

NoLast ==
    [op |-> "none", h |-> 0, o |-> 0, key |-> "", idx |-> 0, flag |-> FALSE,
     ret |-> FALSE, rs |-> "", ri |-> 0]

Init ==
    /\ heap = <<>>
    /\ leaked = FALSE
    /\ doubleFree = FALSE
    /\ alive = [h \in Handles |-> FALSE]
    /\ m_content = [h \in Handles |-> NULL]
    /\ m_deletable = [h \in Handles |-> TRUE]
    /\ fatal = FALSE
    /\ last = NoLast

\* the caller is between two calls
Idle == ~fatal /\ last.op = "none"

\* The caller contract of sections 3 and 5 of the specification: a handle is
\* used only while the node it references exists.  A view whose tree is gone
\* may still be cleared and destroyed, which do not dereference it.
Usable(h) == alive[h] /\ m_content[h] # DANGLING

\* a new handle object takes the first slot that holds none
NewSlot(h) == ~alive[h] /\ \A g \in Handles : g < h => alive[g]

\* The operation ends with the heap hp, the handles al and their members mc
\* and md, and the result rec.
Commit(hp, al, mc, md, rec) ==
    LET g == Collect(hp, [h \in Handles |-> IF al[h] THEN mc[h] ELSE NULL])
    IN /\ Len(g.heap) <= MaxNodes
       /\ heap' = g.heap
       /\ leaked' = (leaked \/ g.leaked > 0)
       /\ doubleFree' = (doubleFree \/ g.doubleFree)
       /\ alive' = al
       /\ m_content' = g.content
       /\ m_deletable' = [h \in Handles |-> IF al[h] THEN md[h] ELSE TRUE]
       /\ last' = rec
       /\ UNCHANGED fatal

\* the operation on handle h ends with the heap hp and h's m_content c
CommitContent(hp, h, c, rec) ==
    Commit(hp, alive, [m_content EXCEPT ![h] = c], m_deletable, rec)

\* the constructor of handle h ends with the heap hp and the members c, d
CommitNew(hp, h, c, d, rec) ==
    Commit(hp, [alive EXCEPT ![h] = TRUE], [m_content EXCEPT ![h] = c],
           [m_deletable EXCEPT ![h] = d], rec)

\* the process dies: nothing else happens any more
Crash(rec) ==
    /\ fatal' = TRUE
    /\ last' = rec
    /\ UNCHANGED <<heap, leaked, doubleFree, alive, m_content, m_deletable>>

\* the call has returned and the caller has taken its result
Return ==
    /\ ~fatal /\ last.op # "none"
    /\ last' = NoLast
    /\ UNCHANGED <<heap, leaked, doubleFree, alive, m_content, m_deletable, fatal>>

\* JsonItem::getItemContent
getItemContent(h) == m_content[h]

\* JsonItem::isValid
isValid(h) == m_content[h] # NULL

\* JsonItem::isObject / isArray / isValue
isObject(h) == m_content[h] # NULL /\ heap[m_content[h]].type = "OBJECT"
isArray(h) == m_content[h] # NULL /\ heap[m_content[h]].type = "ARRAY"
isValue(h) == m_content[h] # NULL /\ heap[m_content[h]].type = "VALUE"

\* JsonItem::getSize
getSize(h) == IF m_content[h] = NULL THEN 0 ELSE NodeSize(heap, m_content[h])

\* JsonItem::getKeys
getKeys(h) ==
    IF m_content[h] = NULL THEN <<>>
    ELSE IF heap[m_content[h]].type = "OBJECT" THEN heap[m_content[h]].keys
    ELSE <<>>

\* JsonItem::contains
contains(h, key) ==
    IF m_content[h] = NULL THEN FALSE
    ELSE IF heap[m_content[h]].type = "OBJECT"
    THEN IndexOf(heap[m_content[h]].keys, key) # 0
    ELSE FALSE

\* JsonItem::clear as it would be without the test of m_deletable
clearDeletes_unowned(c, d) == c # NULL

\* JsonItem::clear: the condition under which the content is deleted
clearDeletes(c, d) == c # NULL /\ d

\* JsonItem::clear on members (c, d): the new heap and the new m_content
DoClear(hp, c, d) ==
    IF clearDeletes(c, d)
    THEN [heap |-> DeleteTree(hp, c), content |-> NULL]
    ELSE [heap |-> hp, content |-> c]

\* JsonItem::JsonItem()
NewDefault(h) ==
    /\ Idle /\ NewSlot(h)
    /\ CommitNew(heap, h, NULL, TRUE,
                 [NoLast EXCEPT !.op = "JsonItem()", !.h = h])

\* JsonItem::JsonItem(const JsonItem&): otherItem.m_content->copy() is a
\* virtual call through the pointer; through a null pointer it reads the
\* vtable at address 0 and the process dies
NewCopy(h, o) ==
    /\ Idle /\ NewSlot(h) /\ Usable(o)
    /\ LET rec == [NoLast EXCEPT !.op = "JsonItem(copy)", !.h = h, !.o = o]
       IN IF m_content[o] = NULL
          THEN Crash(rec)
          ELSE LET cp == CopyTree(heap, m_content[o])
               IN CommitNew(cp.heap, h, cp.root, DefaultDeletable, rec)

\* JsonItem::JsonItem(DataItem*, bool) as it would be if the copy branch took
\* the pointer itself instead of dataItem->copy()
WrapNode_shallow(hp, n, copy) ==
    IF copy
    THEN [heap |-> hp, content |-> n, deletable |-> DefaultDeletable]
    ELSE [heap |-> hp, content |-> n, deletable |-> FALSE]

\* JsonItem::JsonItem(DataItem*, bool) as it would be if the non-copying
\* branch only cleared m_deletable and never stored the pointer
WrapNode_unset(hp, n, copy) ==
    IF copy
    THEN IF n # NULL
         THEN LET cp == CopyTree(hp, n)
              IN [heap |-> cp.heap, content |-> cp.root, deletable |-> DefaultDeletable]
         ELSE [heap |-> hp, content |-> DefaultContent, deletable |-> DefaultDeletable]
    ELSE [heap |-> hp, content |-> DefaultContent, deletable |-> FALSE]

\* JsonItem::JsonItem(DataItem*, bool) on the pointer n: the heap and the
\* members of the new handle.  The handle a lookup returns is constructed in
\* place in the caller (the return statements name a temporary)
WrapNode(hp, n, copy) ==
    IF copy
    THEN IF n # NULL
         THEN LET cp == CopyTree(hp, n)
              IN [heap |-> cp.heap, content |-> cp.root, deletable |-> DefaultDeletable]
         ELSE [heap |-> hp, content |-> DefaultContent, deletable |-> DefaultDeletable]
    ELSE [heap |-> hp, content |-> n, deletable |-> FALSE]

\* a new handle h is constructed from the pointer n
Wrapped(h, n, copy, rec) ==
    LET w == WrapNode(heap, n, copy)
    IN CommitNew(w.heap, h, w.content, w.deletable, rec)

\* JsonItem::JsonItem(DataItem*, bool), called with o.getItemContent()
NewFromNode(h, o, copy) ==
    /\ Idle /\ NewSlot(h) /\ Usable(o)
    /\ Wrapped(h, getItemContent(o), copy,
               [NoLast EXCEPT !.op = "JsonItem(node)", !.h = h, !.o = o, !.flag = copy])

\* JsonItem::JsonItem(const std::string&) / (const int) / (const float)
NewValue(h, v) ==
    /\ Idle /\ NewSlot(h)
    /\ LET b == Build(heap, v)
       IN CommitNew(b.heap, h, b.root, DefaultDeletable,
                    [NoLast EXCEPT !.op = "JsonItem(value)", !.h = h])

\* JsonItem::~JsonItem
Destroy(h) ==
    /\ Idle /\ alive[h]
    /\ LET r == DoClear(heap, m_content[h], m_deletable[h])
       IN Commit(r.heap, [alive EXCEPT ![h] = FALSE], m_content, m_deletable,
                 [NoLast EXCEPT !.op = "~JsonItem", !.h = h])

\* JsonItem::clear
clear(h) ==
    /\ Idle /\ alive[h]
    /\ LET r == DoClear(heap, m_content[h], m_deletable[h])
       IN CommitContent(r.heap, h, r.content, [NoLast EXCEPT !.op = "clear", !.h = h])

\* ------------------------------------------------------------------ parser
\* JsonParserInterface, as section 6 of the specification gives it:
\* parse(text) succeeds with an output tree or fails with an error message
ParseInputs == {"{}", "1", "{"}
ParserOk(input) == input \in {"{}", "1"}
ParserOutput(input) == IF input = "{}" THEN ObjectVal ELSE IntVal(1)
ParserErrorMessage(input) == IF ParserOk(input) THEN "" ELSE "syntax error"

\* JsonItem::parse as it would be if clear() ran before the parser's result
\* is looked at
parse_clearFirst(h, input) ==
    /\ Idle /\ Usable(h)
    /\ IF ~ParserOk(input)
       THEN LET r == DoClear(heap, m_content[h], m_deletable[h])
            IN CommitContent(r.heap, h, r.content,
                   [NoLast EXCEPT !.op = "parse", !.h = h, !.key = input,
                        !.ret = FALSE, !.rs = ParserErrorMessage(input)])
       ELSE LET b == Build(heap, ParserOutput(input))
                r == DoClear(b.heap, m_content[h], m_deletable[h])
            IN CommitContent(r.heap, h, b.root,
                   [NoLast EXCEPT !.op = "parse", !.h = h, !.key = input,
                        !.ret = TRUE])

\* JsonItem::parse
parse(h, input) ==
    /\ Idle /\ Usable(h)
    /\ IF ~ParserOk(input)
       THEN CommitContent(heap, h, m_content[h],
                [NoLast EXCEPT !.op = "parse", !.h = h, !.key = input,
                     !.ret = FALSE, !.rs = ParserErrorMessage(input)])
       ELSE LET b == Build(heap, ParserOutput(input))
                r == DoClear(b.heap, m_content[h], m_deletable[h])
            IN CommitContent(r.heap, h, b.root,
                   [NoLast EXCEPT !.op = "parse", !.h = h, !.key = input,
                        !.ret = TRUE])

\* JsonItem::operator= as it would be if it also set m_deletable
Assign_owning(h, o) ==
    /\ Idle /\ Usable(h) /\ Usable(o)
    /\ LET rec == [NoLast EXCEPT !.op = "operator=", !.h = h, !.o = o]
       IN IF h = o
          THEN CommitContent(heap, h, m_content[h], rec)
          ELSE IF m_content[o] = NULL
          THEN Crash(rec)
          ELSE LET r == DoClear(heap, m_content[h], m_deletable[h])
                   stale == ~Live(r.heap, m_content[o])
                   cp == Build(r.heap, TreeVal(heap, m_content[o]))
               IN \/ /\ stale
                     /\ Crash(rec)
                  \/ Commit(cp.heap, alive, [m_content EXCEPT ![h] = cp.root],
                            [m_deletable EXCEPT ![h] = TRUE], rec)

\* JsonItem::operator=
\* clear() runs before other.m_content->copy().  A null other.m_content is a
\* virtual call through a null pointer.  When other is a view into the tree
\* that clear() has just deleted, copy() reads freed memory: the process
\* dies, or the stale bytes are still there and are copied.
Assign(h, o) ==
    /\ Idle /\ Usable(h) /\ Usable(o)
    /\ LET rec == [NoLast EXCEPT !.op = "operator=", !.h = h, !.o = o]
       IN IF h = o
          THEN CommitContent(heap, h, m_content[h], rec)
          ELSE IF m_content[o] = NULL
          THEN Crash(rec)
          ELSE LET r == DoClear(heap, m_content[h], m_deletable[h])
                   stale == ~Live(r.heap, m_content[o])
                   cp == Build(r.heap, TreeVal(heap, m_content[o]))
               IN \/ /\ stale
                     /\ Crash(rec)
                  \/ CommitContent(cp.heap, h, cp.root, rec)

\* JsonItem::setValue as it would be without the creation of a DataValue for
\* a null content
DoSetValue_noCreate(hp, c, v) ==
    IF c = NULL
    THEN [heap |-> hp, content |-> c, ret |-> FALSE]
    ELSE IF hp[c].type = "VALUE"
    THEN [heap |-> NodeSetValue(hp, c, v), content |-> c, ret |-> TRUE]
    ELSE [heap |-> hp, content |-> c, ret |-> FALSE]

\* JsonItem::setValue on content c: the heap, the content and the result
DoSetValue(hp, c, v) ==
    LET b == IF c = NULL THEN Build(hp, DefaultVal) ELSE [heap |-> hp, root |-> c]
    IN IF b.heap[b.root].type = "VALUE"
       THEN [heap |-> NodeSetValue(b.heap, b.root, v), content |-> b.root, ret |-> TRUE]
       ELSE [heap |-> b.heap, content |-> b.root, ret |-> FALSE]

\* JsonItem::setValue(const std::string&) / (const int&) / (const float&)
setValue(h, v) ==
    /\ Idle /\ Usable(h)
    /\ LET r == DoSetValue(heap, m_content[h], v)
       IN CommitContent(r.heap, h, r.content,
              [NoLast EXCEPT !.op = "setValue", !.h = h, !.ret = r.ret,
                   !.key = v.vtype])

\* JsonItem::insert as it would be if it did not hand its force argument on
\* and always overwrote
DoInsert_forced(hp, c, key, vc, force) ==
    IF vc = NULL \/ key = ""
    THEN [heap |-> hp, content |-> c, ret |-> FALSE]
    ELSE LET b == IF c = NULL THEN Build(hp, ObjectVal) ELSE [heap |-> hp, root |-> c]
         IN IF b.heap[b.root].type = "OBJECT"
            THEN LET cp == CopyTree(b.heap, vc)
                     r == NodeInsert(cp.heap, b.root, key, cp.root, TRUE)
                 IN [heap |-> r.heap, content |-> b.root, ret |-> r.ret]
            ELSE [heap |-> b.heap, content |-> b.root, ret |-> FALSE]

\* JsonItem::insert on content c with the operand's content vc
DoInsert(hp, c, key, vc, force) ==
    IF vc = NULL \/ key = ""
    THEN [heap |-> hp, content |-> c, ret |-> FALSE]
    ELSE LET b == IF c = NULL THEN Build(hp, ObjectVal) ELSE [heap |-> hp, root |-> c]
         IN IF b.heap[b.root].type = "OBJECT"
            THEN LET cp == CopyTree(b.heap, vc)
                     r == NodeInsert(cp.heap, b.root, key, cp.root, force)
                 IN [heap |-> r.heap, content |-> b.root, ret |-> r.ret]
            ELSE [heap |-> b.heap, content |-> b.root, ret |-> FALSE]

\* JsonItem::insert
insert(h, key, o, force) ==
    /\ Idle /\ Usable(h) /\ Usable(o)
    /\ LET r == DoInsert(heap, m_content[h], key, m_content[o], force)
       IN CommitContent(r.heap, h, r.content,
              [NoLast EXCEPT !.op = "insert", !.h = h, !.o = o, !.key = key,
                   !.flag = force, !.ret = r.ret])

\* JsonItem::append on content c with the operand's content vc
DoAppend(hp, c, vc) ==
    IF vc = NULL
    THEN [heap |-> hp, content |-> c, ret |-> FALSE]
    ELSE LET b == IF c = NULL THEN Build(hp, ArrayVal) ELSE [heap |-> hp, root |-> c]
         IN IF b.heap[b.root].type = "ARRAY"
            THEN LET cp == CopyTree(b.heap, vc)
                     r == NodeAppend(cp.heap, b.root, cp.root)
                 IN [heap |-> r.heap, content |-> b.root, ret |-> r.ret]
            ELSE [heap |-> b.heap, content |-> b.root, ret |-> FALSE]

\* JsonItem::append
append(h, o) ==
    /\ Idle /\ Usable(h) /\ Usable(o)
    /\ LET r == DoAppend(heap, m_content[h], m_content[o])
       IN CommitContent(r.heap, h, r.content,
              [NoLast EXCEPT !.op = "append", !.h = h, !.o = o, !.ret = r.ret])

\* JsonItem::replaceItem as it would be if the bound were off by one
replaceInRange_offByOne(hp, n, index) ==
    hp[n].type = "ARRAY" /\ Len(hp[n].items) >= index

\* JsonItem::replaceItem: the condition under which the element is replaced
replaceInRange(hp, n, index) ==
    hp[n].type = "ARRAY" /\ Len(hp[n].items) > index

\* JsonItem::replaceItem as it would be without the creation of a DataArray
\* for a null content
DoReplaceItem_noCreate(hp, c, index, vc) ==
    IF vc = NULL \/ c = NULL
    THEN [heap |-> hp, content |-> c, ret |-> FALSE]
    ELSE IF replaceInRange(hp, c, index)
    THEN LET cp == CopyTree(hp, vc)
         IN [heap |-> [cp.heap EXCEPT ![c].items[index + 1] = cp.root],
             content |-> c, ret |-> cp.root # NULL]
    ELSE [heap |-> hp, content |-> c, ret |-> FALSE]

\* JsonItem::replaceItem on content c with the operand's content vc:
\* m_array[index] is overwritten with the copy; the pointer it held is not
\* deleted
DoReplaceItem(hp, c, index, vc) ==
    IF vc = NULL
    THEN [heap |-> hp, content |-> c, ret |-> FALSE]
    ELSE LET b == IF c = NULL THEN Build(hp, ArrayVal) ELSE [heap |-> hp, root |-> c]
         IN IF replaceInRange(b.heap, b.root, index)
            THEN LET cp == CopyTree(b.heap, vc)
                 IN [heap |-> [cp.heap EXCEPT ![b.root].items[index + 1] = cp.root],
                     content |-> b.root, ret |-> cp.root # NULL]
            ELSE [heap |-> b.heap, content |-> b.root, ret |-> FALSE]

\* JsonItem::replaceItem
replaceItem(h, index, o) ==
    /\ Idle /\ Usable(h) /\ Usable(o)
    /\ LET r == DoReplaceItem(heap, m_content[h], index, m_content[o])
       IN CommitContent(r.heap, h, r.content,
              [NoLast EXCEPT !.op = "replaceItem", !.h = h, !.o = o,
                   !.idx = index, !.ret = r.ret])

\* the order in which std::map iterates over the keys
KeyOrder == <<"", "k1", "k2">>

\* JsonItem::JsonItem(std::map<std::string, JsonItem>&): the loop, from the
\* j-th key on; m maps the keys of the map to the handles stored in it
RECURSIVE InsertAll(_, _, _, _)
InsertAll(hp, c, m, j) ==
    IF j > Len(KeyOrder) THEN hp
    ELSE IF KeyOrder[j] \in DOMAIN m
    THEN InsertAll(DoInsert(hp, c, KeyOrder[j], m_content[m[KeyOrder[j]]], FALSE).heap,
                   c, m, j + 1)
    ELSE InsertAll(hp, c, m, j + 1)

MapInputs ==
    UNION {[S -> Handles] : S \in {T \in SUBSET KeyInputs : Cardinality(T) <= 2}}

\* JsonItem::JsonItem(std::map<std::string, JsonItem>&)
NewObject(h, m) ==
    /\ Idle /\ NewSlot(h)
    /\ \A k \in DOMAIN m : Usable(m[k])
    /\ LET b == Build(heap, ObjectVal)
       IN CommitNew(InsertAll(b.heap, b.root, m, 1), h, b.root, DefaultDeletable,
                    [NoLast EXCEPT !.op = "JsonItem(map)", !.h = h])

\* JsonItem::JsonItem(std::vector<JsonItem>&): the loop over the elements
RECURSIVE AppendAll(_, _, _)
AppendAll(hp, c, q) ==
    IF q = <<>> THEN hp
    ELSE AppendAll(DoAppend(hp, c, m_content[Head(q)]).heap, c, Tail(q))

VectorInputs == UNION {[1..n -> Handles] : n \in 0..2}

\* JsonItem::JsonItem(std::vector<JsonItem>&)
NewArray(h, q) ==
    /\ Idle /\ NewSlot(h)
    /\ \A j \in 1..Len(q) : Usable(q[j])
    /\ LET b == Build(heap, ArrayVal)
       IN CommitNew(AppendAll(b.heap, b.root, q), h, b.root, DefaultDeletable,
                    [NoLast EXCEPT !.op = "JsonItem(vector)", !.h = h])

\* JsonItem::operator[](const std::string) and JsonItem::get(const std::string, bool);
\* the returned handle is the new handle r
LookupKey(h, key, copy, r, op) ==
    /\ Idle /\ Usable(h) /\ NewSlot(r)
    /\ LET rec == [NoLast EXCEPT !.op = op, !.h = h, !.o = r, !.key = key,
                       !.flag = copy]
       IN IF m_content[h] = NULL
          THEN CommitNew(heap, r, NULL, TRUE, rec)
          ELSE Wrapped(r, NodeGetKey(heap, m_content[h], key), copy, rec)

\* JsonItem::operator[](const uint32_t) and JsonItem::get(const uint32_t, bool)
LookupIndex(h, index, copy, r, op) ==
    /\ Idle /\ Usable(h) /\ NewSlot(r)
    /\ LET rec == [NoLast EXCEPT !.op = op, !.h = h, !.o = r, !.idx = index,
                       !.flag = copy]
       IN IF m_content[h] = NULL
          THEN CommitNew(heap, r, NULL, TRUE, rec)
          ELSE Wrapped(r, NodeGetIndex(heap, m_content[h], index), copy, rec)

\* JsonItem::operator[](const std::string)
IndexByKey(h, key, r) == LookupKey(h, key, TRUE, r, "operator[key]")

\* JsonItem::operator[](const uint32_t)
IndexByIndex(h, index, r) == LookupIndex(h, index, TRUE, r, "operator[index]")

\* JsonItem::get(const std::string, const bool)
getByKey(h, key, copy, r) == LookupKey(h, key, copy, r, "get(key)")

\* JsonItem::get(const uint32_t, const bool)
getByIndex(h, index, copy, r) == LookupIndex(h, index, copy, r, "get(index)")

\* a call that changes nothing ends with the result rec
Observed(rec) ==
    /\ last' = rec
    /\ UNCHANGED <<heap, leaked, doubleFree, alive, m_content, m_deletable, fatal>>

\* JsonItem::getString
getString(h) ==
    /\ Idle /\ Usable(h)
    /\ Observed([NoLast EXCEPT !.op = "getString", !.h = h,
                    !.rs = IF m_content[h] = NULL THEN ""
                           ELSE IF heap[m_content[h]].type = "VALUE"
                           THEN NodeToString(heap, m_content[h])
                           ELSE ""])

\* what reading through toValue() of a node that is no DataValue may give:
\* the process dies on the null pointer, or the bytes read are these
WildInts == {0, 7}

\* JsonItem::getInt: m_content->toValue()->getValueType() is evaluated
\* without a check of getType()
getInt(h) ==
    /\ Idle /\ Usable(h)
    /\ LET rec == [NoLast EXCEPT !.op = "getInt", !.h = h]
       IN IF m_content[h] = NULL
          THEN Observed(rec)
          ELSE IF heap[m_content[h]].type # "VALUE"
          THEN \/ Crash(rec)
               \/ \E w \in WildInts : Observed([rec EXCEPT !.ri = w])
          ELSE Observed([rec EXCEPT !.ri =
                               IF heap[m_content[h]].vtype = "INT"
                               THEN NodeToInt(heap, m_content[h]) ELSE 0])

\* JsonItem::getFloat: as getInt
getFloat(h) ==
    /\ Idle /\ Usable(h)
    /\ LET rec == [NoLast EXCEPT !.op = "getFloat", !.h = h]
       IN IF m_content[h] = NULL
          THEN Observed(rec)
          ELSE IF heap[m_content[h]].type # "VALUE"
          THEN \/ Crash(rec)
               \/ \E w \in WildInts : Observed([rec EXCEPT !.ri = w])
          ELSE Observed([rec EXCEPT !.ri =
                               IF heap[m_content[h]].vtype = "FLOAT"
                               THEN NodeToFloat(heap, m_content[h]) ELSE 0])

\* JsonItem::remove(const std::string&) as it would be if it only tested the
\* content and never forwarded to the node
DoRemoveKey_dropped(hp, c, key) ==
    [heap |-> hp, ret |-> FALSE]

\* JsonItem::remove(const std::string&) on content c
DoRemoveKey(hp, c, key) ==
    IF c # NULL
    THEN NodeRemoveKey(hp, c, key)
    ELSE [heap |-> hp, ret |-> FALSE]

\* JsonItem::remove(const std::string&)
removeKey(h, key) ==
    /\ Idle /\ Usable(h)
    /\ LET r == DoRemoveKey(heap, m_content[h], key)
       IN CommitContent(r.heap, h, m_content[h],
              [NoLast EXCEPT !.op = "remove(key)", !.h = h, !.key = key,
                   !.ret = r.ret])

\* JsonItem::remove(const uint32_t)
removeIndex(h, index) ==
    /\ Idle /\ Usable(h)
    /\ LET r == IF m_content[h] # NULL
                THEN NodeRemoveIndex(heap, m_content[h], index)
                ELSE [heap |-> heap, ret |-> FALSE]
       IN CommitContent(r.heap, h, m_content[h],
              [NoLast EXCEPT !.op = "remove(index)", !.h = h, !.idx = index,
                   !.ret = r.ret])

Next ==
    \/ \E h \in Handles : NewDefault(h)
    \/ \E h, o \in Handles : NewCopy(h, o)
    \/ \E h, o \in Handles, copy \in BOOLEAN : NewFromNode(h, o, copy)
    \/ \E h \in Handles, v \in ScalarInputs : NewValue(h, v)
    \/ \E h \in Handles, m \in MapInputs : NewObject(h, m)
    \/ \E h \in Handles, q \in VectorInputs : NewArray(h, q)
    \/ \E h \in Handles : Destroy(h)
    \/ \E h \in Handles, input \in ParseInputs : parse(h, input)
    \/ \E h, o \in Handles : Assign(h, o)
    \/ \E h \in Handles, v \in ScalarInputs : setValue(h, v)
    \/ \E h, o \in Handles, key \in KeyInputs, force \in BOOLEAN :
            insert(h, key, o, force)
    \/ \E h, o \in Handles : append(h, o)
    \/ \E h, o \in Handles, index \in Indexes : replaceItem(h, index, o)
    \/ \E h, r \in Handles, key \in KeyInputs : IndexByKey(h, key, r)
    \/ \E h, r \in Handles, index \in Indexes : IndexByIndex(h, index, r)
    \/ \E h, r \in Handles, key \in KeyInputs, copy \in BOOLEAN :
            getByKey(h, key, copy, r)
    \/ \E h, r \in Handles, index \in Indexes, copy \in BOOLEAN :
            getByIndex(h, index, copy, r)
    \/ \E h \in Handles : getString(h)
    \/ \E h \in Handles : getInt(h)
    \/ \E h \in Handles : getFloat(h)
    \/ \E h \in Handles, key \in KeyInputs : removeKey(h, key)
    \/ \E h \in Handles, index \in Indexes : removeIndex(h, index)
    \/ \E h \in Handles : clear(h)
    \/ Return

Spec == Init /\ [][Next]_vars

\* ------------------------------------------------------------------ observations
\* what a handle without content shows
NullVal ==
    [type |-> "NULL", vtype |-> "NONE",
     s |-> "", i |-> 0, f |-> 0, keys |-> <<>>, items |-> <<>>]

\* the content of handle h as a value
Val(h) == IF m_content[h] = NULL THEN NullVal ELSE TreeVal(heap, m_content[h])

\* the value stored under key k / at index j of the container h
ValAtKey(h, k) == Val(h).items[IndexOf(Val(h).keys, k)]
ElemAt(h, j) == Val(h).items[j + 1]

\* the nodes of the tree handle h points to
NodesOf(h) == IF alive[h] THEN Reach(heap, m_content[h]) ELSE {}

Disjoint(h, g) == NodesOf(h) \cap NodesOf(g) = {}

AllDestroyed == \A h \in Handles : ~alive[h]

LookupOps == {"operator[key]", "operator[index]", "get(key)", "get(index)"}
KeyLookupOps == {"operator[key]", "get(key)"}
MutatingOps ==
    {"setValue", "insert", "append", "replaceItem", "remove(key)", "remove(index)",
     "clear", "operator=", "parse", "~JsonItem"}

\* ------------------------------------------------------------------ claims
\* the step is a call of op on handle h with the operand / returned handle o
Called(op, h, o) == last'.op = op /\ last'.h = h /\ last'.o = o

\* C1: when every handle has been destroyed (and the process did not die),
\* every node that was allocated has been deleted exactly once: none is lost
\* and none was deleted twice.
C1_NoLeakNoDoubleFree ==
    (AllDestroyed /\ ~fatal) => (~leaked /\ ~doubleFree)

\* C2: deep-copy independence.  In every step that does not kill the process:
\* (a) the content of a handle made by copy construction, by a copying lookup
\* or by assignment equals its source and shares no node with any other
\* handle; (b) two handles whose trees share no node still share none
\* afterwards, so what insert / append / replaceItem store is no part of the
\* operand; (c) a mutation through one handle leaves the content of every
\* handle whose tree shares no node with it unchanged.
C2_DeepCopyIndependence ==
    [][~fatal' =>
        \A h, o \in Handles :
            /\ (h # o /\ alive[h] /\ alive[o] /\ alive'[h] /\ alive'[o] /\ Disjoint(h, o))
                  => Disjoint(h, o)'
            /\ Called("JsonItem(copy)", h, o)
                  => /\ Val(h)' = Val(o)
                     /\ \A g \in Handles \ {h} : Disjoint(h, g)'
            /\ (Called("operator=", h, o) /\ h # o)
                  => /\ Val(h)' = Val(o)
                     /\ \A g \in Handles \ {h} : Disjoint(h, g)'
            /\ (last'.op \in LookupOps /\ last'.h = h /\ last'.o = o /\ last'.flag)
                  => /\ \A g \in Handles \ {o} : Disjoint(o, g)'
                     /\ Val(h)' = Val(h)
            /\ (last'.op \in MutatingOps /\ last'.h = h /\ o # h)
                  => ((alive[o] /\ Disjoint(o, h))
                        => /\ Val(o)' = Val(o)
                           /\ m_content'[o] = DANGLING <=> m_content[o] = DANGLING)
    ]_vars

\* C2 is exercised: insert has stored the content of another handle under
\* the key; what the container now holds there equals the operand's content
\* and is no node of the operand's tree.
C2_Witness ==
    /\ last.op = "insert" /\ last.ret /\ last.h # last.o
    /\ alive[last.o] /\ isValid(last.o)
    /\ ValAtKey(last.h, last.key) = Val(last.o)
    /\ NodeGetKey(heap, m_content[last.h], last.key) \notin NodesOf(last.o)

\* C3: after an assignment a = b of two distinct handles that returns, a is
\* owning, a's content equals what b held, and nothing a held is lost.
C3_AssignOwns ==
    [][\A h, o \in Handles :
        (Called("operator=", h, o) /\ h # o /\ ~fatal')
            => /\ m_deletable'[h]
               /\ Val(h)' = Val(o)
               /\ leaked' = leaked
    ]_vars

\* C4: no operation ends the process.
C4_NoFatal == ~fatal

\* C5: after parse has returned success the handle's content is the parser's
\* output tree, the handle owns it, and nothing the handle held is lost.
C5_ParseOwns ==
    [][\A h \in Handles, input \in ParseInputs :
        (last'.op = "parse" /\ last'.h = h /\ last'.key = input /\ last'.ret)
            => /\ m_deletable'[h]
               /\ Val(h)' = ParserOutput(input)
               /\ leaked' = leaked
    ]_vars

\* C6: insert with a non-empty key and a valid operand on an Object or invalid
\* handle: if the key is present, force=false returns false and leaves the
\* content as it was, force=true returns true and the value under the key
\* becomes the operand's value with the keys and the size unchanged; if the
\* key is absent the call returns true and the key holds the operand's value.
C6_InsertOverwrite ==
    [][\A h, o \in Handles, k \in Keys :
        (/\ Called("insert", h, o) /\ last'.key = k
         /\ isValid(o)
         /\ (isObject(h) \/ ~isValid(h)))
            => IF contains(h, k)
               THEN IF last'.flag
                    THEN /\ last'.ret
                         /\ ValAtKey(h, k)' = Val(o)
                         /\ getKeys(h)' = getKeys(h)
                         /\ getSize(h)' = getSize(h)
                    ELSE /\ ~last'.ret
                         /\ Val(h)' = Val(h)
               ELSE /\ last'.ret
                    /\ contains(h, k)'
                    /\ ValAtKey(h, k)' = Val(o)
                    /\ getSize(h)' = getSize(h) + 1
    ]_vars

\* C6 is exercised: an insert with force=false was refused on an Object
\* because the key is present, and the value under the key is not the operand's.
C6_WitnessRefused ==
    /\ last.op = "insert" /\ ~last.flag /\ ~last.ret
    /\ last.key # "" /\ isValid(last.o) /\ isObject(last.h)
    /\ contains(last.h, last.key)
    /\ ValAtKey(last.h, last.key) # Val(last.o)

\* C7: replaceItem with a valid operand on an Array of size N: for an index
\* >= N it returns false and the array is unchanged; for an index < N it
\* returns true, the element at the index becomes the operand's value, every
\* other element is unchanged and the size is still N.
C7_ReplaceBounds ==
    [][\A h, o \in Handles, index \in Indexes :
        (Called("replaceItem", h, o) /\ last'.idx = index /\ isArray(h) /\ isValid(o))
            => IF index >= getSize(h)
               THEN /\ ~last'.ret
                    /\ Val(h)' = Val(h)
               ELSE /\ last'.ret
                    /\ getSize(h)' = getSize(h)
                    /\ \A j \in 0..(getSize(h) - 1) :
                          ElemAt(h, j)' = IF j = index THEN Val(o) ELSE ElemAt(h, j)
    ]_vars

\* C7 is exercised: a replaceItem succeeded on the last element of an array
\* of two elements, which now equals the operand.
C7_Witness ==
    /\ last.op = "replaceItem" /\ last.ret /\ last.idx = 1
    /\ isArray(last.h) /\ getSize(last.h) = 2
    /\ alive[last.o] /\ ElemAt(last.h, 1) = Val(last.o)

\* C8: remove(key) returns false and changes nothing when the handle is
\* invalid, is no Object or does not contain the key; when the key is present
\* it returns true, the key is gone, the size is one less and every other key
\* keeps its value.
C8_RemoveKey ==
    [][\A h \in Handles, k \in KeyInputs :
        (last'.op = "remove(key)" /\ last'.h = h /\ last'.key = k)
            => IF isObject(h) /\ (\E j \in 1..Len(getKeys(h)) : getKeys(h)[j] = k)
               THEN /\ last'.ret
                    /\ ~contains(h, k)'
                    /\ getSize(h)' = getSize(h) - 1
                    /\ \A k2 \in Keys \ {k} :
                          contains(h, k2)
                              => /\ contains(h, k2)'
                                 /\ ValAtKey(h, k2)' = ValAtKey(h, k2)
               ELSE /\ ~last'.ret
                    /\ UNCHANGED <<heap, leaked, doubleFree, alive, m_content,
                                   m_deletable>>
    ]_vars

\* C8 is exercised: a key was removed from an Object that still holds another.
C8_Witness ==
    /\ last.op = "remove(key)" /\ last.ret
    /\ isObject(last.h) /\ getSize(last.h) = 1

\* C9: a lookup returns an invalid handle when the parent is invalid, the key
\* or index is missing or the parent's variant does not match the lookup;
\* otherwise it returns a valid handle whose content equals the child.
C9_Lookup ==
    [][\A h, r \in Handles, k \in KeyInputs, index \in Indexes :
        (/\ last'.op \in LookupOps /\ last'.h = h /\ last'.o = r
         /\ last'.key = k /\ last'.idx = index)
            => /\ alive'[r]
               /\ IF last'.op \in KeyLookupOps
                  THEN IF isObject(h) /\ (\E j \in 1..Len(getKeys(h)) : getKeys(h)[j] = k)
                       THEN /\ isValid(r)'
                            /\ Val(r)' = ValAtKey(h, k)
                       ELSE ~isValid(r)'
                  ELSE IF isArray(h) /\ index < getSize(h)
                       THEN /\ isValid(r)'
                            /\ Val(r)' = ElemAt(h, index)
                       ELSE ~isValid(r)'
    ]_vars

\* C9 is exercised: a non-copying get(key) returned a valid handle.
C9_Witness ==
    /\ last.op = "get(key)" /\ ~last.flag
    /\ alive[last.o] /\ isValid(last.o) /\ ~m_deletable[last.o]

\* C10: getString / getInt / getFloat return the stored value when the content
\* is a Scalar of the getter's sub-kind and the neutral default ("" / 0) for
\* every other handle: invalid, Object, Array, Scalar of another sub-kind.
C10_GettersNeutral ==
    /\ (last.op = "getString")
          => /\ ~fatal
             /\ last.rs = IF isValue(last.h) /\ heap[m_content[last.h]].vtype = "STRING"
                          THEN heap[m_content[last.h]].s ELSE ""
    /\ (last.op = "getInt")
          => /\ ~fatal
             /\ last.ri = IF isValue(last.h) /\ heap[m_content[last.h]].vtype = "INT"
                          THEN heap[m_content[last.h]].i ELSE 0
    /\ (last.op = "getFloat")
          => /\ ~fatal
             /\ last.ri = IF isValue(last.h) /\ heap[m_content[last.h]].vtype = "FLOAT"
                          THEN heap[m_content[last.h]].f ELSE 0

\* C11: setValue returns true exactly when the content is absent or a Scalar,
\* whatever the sub-kind of the new value; afterwards the handle is then a
\* valid Scalar.  On an Object or Array it returns false and the content is
\* unchanged.
C11_SetValue ==
    [][\A h \in Handles :
        (last'.op = "setValue" /\ last'.h = h)
            => IF ~isValid(h) \/ isValue(h)
               THEN /\ last'.ret
                    /\ isValue(h)'
               ELSE /\ ~last'.ret
                    /\ Val(h)' = Val(h)
                    /\ leaked' = leaked
    ]_vars

\* C11 is exercised: a setValue was refused on an Array that holds an element.
C11_Witness ==
    /\ last.op = "setValue" /\ ~last.ret
    /\ isArray(last.h) /\ getSize(last.h) = 1

\* C12: a Scalar keeps its sub-kind: a setValue with a value of the scalar's
\* sub-kind leaves the sub-kind as it is, and a setValue with a value of
\* another sub-kind returns false and changes nothing.
C12_SubKindFixed ==
    [][\A h \in Handles :
        (last'.op = "setValue" /\ last'.h = h /\ isValue(h))
            => IF Val(h).vtype = last'.key
               THEN Val(h)'.vtype = Val(h).vtype
               ELSE /\ ~last'.ret
                    /\ Val(h)' = Val(h)
    ]_vars

\* C13: after clear() the handle is invalid and its size is 0, whatever it
\* was before: invalid, owning with content or a non-owning view; a content
\* the handle did not own is not destroyed.
C13_ClearInvalid ==
    [][\A h \in Handles :
        (last'.op = "clear" /\ last'.h = h)
            => /\ ~isValid(h)'
               /\ getSize(h)' = 0
               /\ ~m_deletable[h]
                     => \A g \in Handles \ {h} : alive[g] => Val(g)' = Val(g)
    ]_vars

\* C14: clearing or destroying a non-owning handle deletes no node: every
\* other handle's tree has the content it had, no pointer of another handle
\* starts to dangle and no node is deleted a second time.
C14_ViewKeepsNode ==
    [][\A h \in Handles :
        (last'.op \in {"clear", "~JsonItem"} /\ last'.h = h /\ ~m_deletable[h])
            => /\ \A g \in Handles \ {h} :
                     alive[g] => /\ Val(g)' = Val(g)
                                 /\ m_content'[g] = DANGLING <=> m_content[g] = DANGLING
               /\ doubleFree' = doubleFree
    ]_vars

\* C14 is exercised: clear() has run on a non-owning handle whose node is a
\* node of the tree another, owning handle holds.
C14_Witness ==
    /\ last.op = "clear" /\ alive[last.h] /\ ~m_deletable[last.h]
    /\ m_content[last.h] \notin {NULL, DANGLING}
    /\ \E g \in Handles \ {last.h} :
          /\ alive[g] /\ m_deletable[g]
          /\ m_content[last.h] \in NodesOf(g)

\* C15: a parse that fails returns (false, the parser's error message) and
\* leaves the content pointer, the ownership flag and every node as they
\* were; a parse that succeeds returns (true, "").
C15_ParseFailureFrame ==
    [][\A h \in Handles, input \in ParseInputs :
        (last'.op = "parse" /\ last'.h = h /\ last'.key = input)
            => IF ParserOk(input)
               THEN last'.ret /\ last'.rs = ""
               ELSE /\ ~last'.ret
                    /\ last'.rs = ParserErrorMessage(input)
                    /\ UNCHANGED <<heap, leaked, doubleFree, alive, m_content,
                                   m_deletable>>
    ]_vars

\* C15 is exercised: a parse has failed on an owning handle that holds an
\* Object with an entry.
C15_Witness ==
    /\ last.op = "parse" /\ ~last.ret /\ last.rs # ""
    /\ m_deletable[last.h] /\ isObject(last.h) /\ getSize(last.h) = 1

\* C17: a replaceItem that succeeds destroys the child that was at the index:
\* that node is no longer allocated afterwards (it is not lost, and a handle
\* that pointed to it dangles), and the slot holds a copy of the operand.
C17_ReplaceDestroysOld ==
    [][\A h, o \in Handles, index \in Indexes :
        (Called("replaceItem", h, o) /\ last'.idx = index /\ last'.ret)
            => /\ leaked' = leaked
               /\ ElemAt(h, index)' = Val(o)
               /\ \A g \in Handles \ {h} :
                     (alive[g] /\ m_content[g] = NodeGetIndex(heap, m_content[h], index))
                         => m_content'[g] = DANGLING
    ]_vars

\* C18: an insert or append that returns false leaves the target as it was
\* (validity, variant, size, keys, values) and leaves no node allocated that
\* was not allocated before.
C18_FailedAddFrame ==
    [][\A h \in Handles :
        (last'.op \in {"insert", "append"} /\ last'.h = h /\ ~last'.ret)
            => /\ Val(h)' = Val(h)
               /\ leaked' = leaked
    ]_vars

\* C19: replaceItem on an invalid handle returns false for every index; with
\* a valid operand the handle is a valid, empty Array afterwards, with an
\* invalid operand it stays invalid.
C19_ReplaceMaterialises ==
    [][\A h, o \in Handles :
        (Called("replaceItem", h, o) /\ ~isValid(h))
            => /\ ~last'.ret
               /\ IF isValid(o)
                  THEN isArray(h)' /\ getSize(h)' = 0
                  ELSE ~isValid(h)'
    ]_vars

\* C19 is exercised: a replaceItem with a valid operand has returned false
\* and the handle is an empty Array.
C19_Witness ==
    /\ last.op = "replaceItem" /\ ~last.ret /\ last.h # last.o
    /\ isValid(last.o) /\ isArray(last.h) /\ getSize(last.h) = 0

\* C20: no operation changes the ownership flag of a handle that exists
\* before and after it.
C20_FlagFixed ==
    [][\A h \in Handles :
        (alive[h] /\ alive'[h]) => m_deletable'[h] = m_deletable[h]
    ]_vars

\* C20 is exercised: an assignment from another handle has run on a
\* non-owning handle, which holds the copy and is still non-owning.
C20_Witness ==
    /\ last.op = "operator=" /\ last.h # last.o /\ ~fatal
    /\ ~m_deletable[last.h] /\ isValid(last.h)
    /\ Disjoint(last.h, last.o)

============================================================================
